---- MODULE Spec2Model ----
(***************************************************************************)
(* Model of skmine/itemsets/lcm.py: the LCM closed itemset miner.          *)
(*                                                                         *)
(* Items are small integers, 0 included.  A transaction is the set of its     *)
(* items (the index only records membership), a database D is a sequence   *)
(* of transactions.  A min_supp is a tagged value: a Python int, a Python  *)
(* float num/den (a finite float with den a power of two, so that its       *)
(* product with a small transaction count is exact), or a value of any     *)
(* other type.  A threshold is kept as a fraction num/den.                 *)
(***************************************************************************)
EXTENDS Integers, Sequences, FiniteSets, TLC

VARIABLES
    status,          \* "new" before construction, "ready" with a miner, "raised"
    err,             \* the exception of the last call, or "none"
    min_supp, _min_supp, item_to_tids, n_transactions, n_jobs,  \* the miner's fields
    given,           \* the arguments the constructor was called with
    D,               \* the database of the last call
    op, out,         \* the last call and what it returned
    tasks,           \* supp_sorted_items: the root items in submission order
    next_task,       \* the next task the pool hands to a worker
    running,         \* the task each worker runs, 0 when idle
    results,         \* the frame each finished task returned
    completed,       \* the tasks in the order they completed
    stack, yielded,  \* the frames of _inner a task is in, and what it yielded
    last             \* the most recent call of _inner

miner == <<status, err, min_supp, _min_supp, item_to_tids, n_transactions, n_jobs>>
call == <<given, D, op, out>>
pool == <<tasks, next_task, running, results, completed>>
search == <<stack, yielded, last>>
vars == <<miner, call, pool, search>>

(* ---------------------------------------------------------------- bounds *)
MaxTrans == 2

(* the items a single run is given, and the items of a sequence of calls *)
Items == {0, 1, 2, 3}
FewItems == {0, 1, 2}
DatabasesOver(items, n) == UNION {[1..k -> SUBSET items] : k \in 0..n}
Databases == DatabasesOver(Items, MaxTrans)

MaxJobs == 2

(* the min_supp arguments tried: ints around 1 and up to one more than the
   largest database, floats k/den around [0, 1], and a value of another type *)
IntSupps == {[kind |-> "int", num |-> v, den |-> 1] : v \in -1..(MaxTrans + 1)}
FloatSupps == {[kind |-> "float", num |-> f[1], den |-> f[2]] :
                 f \in {<<-1, 2>>, <<0, 1>>, <<1, 2>>, <<1, 1>>, <<3, 2>>}}
OtherSupps == {[kind |-> "other", num |-> 0, den |-> 1]}
MinSupps == IntSupps \cup FloatSupps \cup OtherSupps
JobCounts == {0, 1}
(* the thresholds the pool is run with: absolute 1 and 2, relative 0.5 *)
PoolSupps == {[kind |-> "int", num |-> 1, den |-> 1],
              [kind |-> "int", num |-> 2, den |-> 1],
              [kind |-> "float", num |-> 1, den |-> 2]}

None == -1
NoIndex == [i \in {} |-> {}]
NoThreshold == [num |-> 0, den |-> 1]
NoCall == [n |-> 0, rec |-> FALSE, limit |-> None, parent_limit |-> None,
           parent_pp |-> {}, passed |-> FALSE]

(* --------------------------------------------------------------- helpers *)
Max(S) == CHOOSE x \in S : \A y \in S : y <= x
Min(S) == CHOOSE x \in S : \A y \in S : x <= y

RECURSIVE Ascending(_)
Ascending(S) == IF S = {} THEN <<>> ELSE <<Min(S)>> \o Ascending(S \ {Min(S)})

RECURSIVE Flatten(_)
Flatten(ss) == IF ss = <<>> THEN <<>> ELSE Head(ss) \o Flatten(Tail(ss))

Range(s) == {s[i] : i \in DOMAIN s}

(* the numeric value of a min_supp, as a fraction *)
Value(ms) == [num |-> ms.num, den |-> ms.den]

(* n < th and n >= th for an integer n and a fractional threshold th *)
Below(n, th) == n * th.den < th.num
AtLeast(n, th) == n * th.den >= th.num

(* ------------------------------------------------------- _check_min_supp *)
(* variant: the int test written "< 0" *)
check_min_supp_allows_zero(ms) ==
    IF ms.kind = "int"
    THEN IF ms.num < 0 THEN "ValueError" ELSE "ok"
    ELSE IF ms.kind = "float"
         THEN IF ms.num < 0 \/ ms.num > ms.den THEN "ValueError" ELSE "ok"
         ELSE "TypeError"

_check_min_supp(ms) ==
    IF ms.kind = "int"
    THEN IF ms.num < 1 THEN "ValueError" ELSE "ok"
    ELSE IF ms.kind = "float"
         THEN IF ms.num < 0 \/ ms.num > ms.den THEN "ValueError" ELSE "ok"
         ELSE "TypeError"

(* ------------------------------------------------------------------ _fit *)
(* the index built by the loop over D, TransactionIds starting at n0 *)
fit_index(db, n0) ==
    LET seen == UNION Range(db)
    IN  [i \in seen |-> {n0 + t - 1 : t \in {u \in DOMAIN db : i \in db[u]}}]

fit_count(db, n0) == n0 + Len(db)

fit_threshold(ms, th, n) ==
    IF ms.kind = "float" THEN [num |-> ms.num * n, den |-> ms.den] ELSE th

fit_prune(index, th) ==
    LET low_supp_items == {k \in DOMAIN index : Below(Cardinality(index[k]), th)}
    IN  [k \in (DOMAIN index) \ low_supp_items |-> index[k]]

(* ---------------------------------------------------------------- _inner *)
cp(index, p, tids) == {item \in DOMAIN index : tids \subseteq index[item] /\ item \notin p}

max_k(index, p, tids) ==
    LET c == cp(index, p, tids) IN IF c = {} THEN None ELSE Max(c)

(* Python truth of an item or None: None and 0 are false *)
Truthy(k) == k # None /\ k # 0

(* variant: any maximal item passes, whatever the limit *)
closure_test_any_limit(index, p, tids, limit) ==
    Truthy(max_k(index, p, tids))

closure_test(index, p, tids, limit) ==
    LET m == max_k(index, p, tids) IN Truthy(m) /\ m = limit

(* variant: only max_k is added to the prefix *)
p_prime_max_only(index, p, tids) == p \cup {max_k(index, p, tids)}

p_prime(index, p, tids) == p \cup cp(index, p, tids) \cup {max_k(index, p, tids)}

(* variant: the candidates are not cut at the limit *)
candidates_uncut(index, pp, limit) == Ascending((DOMAIN index) \ pp)

candidates(index, pp, limit) == Ascending({c \in (DOMAIN index) \ pp : c < limit})

(* variant: every candidate is explored *)
keeps_support_always(index, th, tids, new_limit) == TRUE

(* tids.intersection_len(ids) >= self._min_supp *)
keeps_support(index, th, tids, new_limit) ==
    AtLeast(Cardinality(tids \cap index[new_limit]), th)

RECURSIVE _inner(_, _, _, _, _)
RECURSIVE inner_loop(_, _, _, _, _)
_inner(index, th, p, tids, limit) ==
    IF closure_test(index, p, tids, limit)
    THEN LET pp == p_prime(index, p, tids)
         IN  <<[itemset |-> pp, tids |-> tids]>>
             \o inner_loop(index, th, pp, tids, candidates(index, pp, limit))
    ELSE <<>>

inner_loop(index, th, pp, tids, cands) ==
    IF cands = <<>> THEN <<>>
    ELSE LET new_limit == Head(cands)
             ids == index[new_limit]
         IN  (IF keeps_support(index, th, tids, new_limit)
              THEN _inner(index, th, pp, tids \cap ids, new_limit)
              ELSE <<>>)
             \o inner_loop(index, th, pp, tids, Tail(cands))

_explore_item(index, th, item) == _inner(index, th, {}, index[item], item)

(* ---------------------------------------------------------- fit_discover *)
(* sorted(items, key=len of tids, reverse=True): a stable sort of the items
   taken in ascending order *)
RECURSIVE supp_sorted(_, _)
supp_sorted(index, S) ==
    IF S = {} THEN <<>>
    ELSE LET top == Max({Cardinality(index[i]) : i \in S})
             first == Min({i \in S : Cardinality(index[i]) = top})
         IN  <<first>> \o supp_sorted(index, S \ {first})

supp_sorted_items(index) == supp_sorted(index, DOMAIN index)

with_support(df) == [j \in DOMAIN df |->
                       [itemset |-> df[j].itemset, support |-> Cardinality(df[j].tids)]]

(* the returned frame: the tids column is replaced by support unless asked *)
frame(df, tids) == [kind |-> "frame", tids |-> tids,
                    rows |-> IF tids THEN df ELSE with_support(df)]

discover(index, th) ==
    LET roots == supp_sorted_items(index)
    IN  Flatten([j \in DOMAIN roots |-> _explore_item(index, th, roots[j])])

(* --------------------------------------------------------- fit_transform *)
(* df.tids.map(len).sort_values(ascending=False).index: the row labels by
   non-increasing support; the order among equal supports is whatever the
   sorting routine leaves, so every such order is a possible outcome *)
RECURSIVE sorted_orders(_, _)
sorted_orders(df, S) ==
    IF S = {} THEN {<<>>}
    ELSE LET top == Max({Cardinality(df[j].tids) : j \in S})
         IN  UNION {{<<j>> \o rest : rest \in sorted_orders(df, S \ {j})} :
                      j \in {k \in S : Cardinality(df[k].tids) = top}}

column_orders(df, sort) ==
    IF sort THEN sorted_orders(df, DOMAIN df) ELSE {[j \in DOMAIN df |-> j]}

(* np.zeros((n_transactions, len(df))) with mat[tids, idx] = 1 per column;
   rows and columns are numbered from 0 *)
encode(df, order, n) ==
    [kind |-> "matrix",
     rows |-> n,
     columns |-> [j \in DOMAIN order |-> df[order[j]].itemset],
     ones |-> {<<t, j - 1>> : t \in 0..(n - 1), j \in DOMAIN order} \cap
              UNION {{<<t, j - 1>> : t \in df[order[j]].tids} : j \in DOMAIN order}]

(* --------------------------------------------------------------- actions *)
Init ==
    /\ status = "new"
    /\ err = "none"
    /\ min_supp = [kind |-> "other", num |-> 0, den |-> 1]
    /\ _min_supp = NoThreshold
    /\ item_to_tids = NoIndex
    /\ n_transactions = 0
    /\ n_jobs = 0
    /\ given = [min_supp |-> [kind |-> "other", num |-> 0, den |-> 1], n_jobs |-> 0]
    /\ D = <<>>
    /\ op = "none"
    /\ out = [kind |-> "none"]
    /\ tasks = <<>>
    /\ next_task = 1
    /\ running = <<>>
    /\ results = <<>>
    /\ completed = <<>>
    /\ stack = <<>>
    /\ yielded = <<>>
    /\ last = NoCall

(* LCM(min_supp=ms, n_jobs=nj) *)
__init__(ms, nj) ==
    /\ status = "new"
    /\ op' = "__init__"
    /\ given' = [min_supp |-> ms, n_jobs |-> nj]
    /\ IF _check_min_supp(ms) = "ok"
       THEN /\ status' = "ready"
            /\ min_supp' = ms
            /\ _min_supp' = Value(ms)
            /\ item_to_tids' = NoIndex
            /\ n_transactions' = 0
            /\ n_jobs' = nj
            /\ UNCHANGED <<err, D, out>>
       ELSE /\ status' = "raised"
            /\ err' = _check_min_supp(ms)
            /\ UNCHANGED <<min_supp, _min_supp, item_to_tids, n_transactions,
                           n_jobs, D, out>>

(* the assignments of _fit(db), shared by the three entry points *)
_fit(db) ==
    LET n == fit_count(db, n_transactions)
        th == fit_threshold(min_supp, _min_supp, n)
    IN  /\ n_transactions' = n
        /\ _min_supp' = th
        /\ item_to_tids' = fit_prune(fit_index(db, n_transactions), th)
        /\ D' = db
        /\ UNCHANGED <<status, min_supp, n_jobs, given>>

(* the databases a call may be given: the model keeps the running
   transaction count within MaxTrans *)
Room == IF status = "ready" THEN DatabasesOver(FewItems, MaxTrans - n_transactions)
        ELSE {}

fit(db) ==
    /\ status = "ready"
    /\ _fit(db)
    /\ op' = "fit"
    /\ err' = "none"
    /\ out' = [kind |-> "self"]

(* Parallel(n_jobs=...) refuses n_jobs = 0 when it is called; every other
   value runs the tasks and returns their results in submission order *)
dispatch_error(nj) == IF nj = 0 THEN "ValueError" ELSE "none"

fit_discover(db, tids) ==
    /\ status = "ready"
    /\ _fit(db)
    /\ op' = "fit_discover"
    /\ err' = dispatch_error(n_jobs)
    /\ out' = IF dispatch_error(n_jobs) # "none" THEN [kind |-> "raise"]
              ELSE LET df == discover(item_to_tids', _min_supp')
                   IN  frame(df, tids)

fit_transform(db, sort) ==
    /\ status = "ready"
    /\ _fit(db)
    /\ op' = "fit_transform"
    /\ err' = dispatch_error(n_jobs)
    /\ IF dispatch_error(n_jobs) # "none"
       THEN out' = [kind |-> "raise"]
       ELSE LET df == discover(item_to_tids', _min_supp')
            IN  \E order \in column_orders(df, sort) :
                  out' = encode(df, order, n_transactions')

(* the public calls, each run to completion *)
Construct ==
    /\ \E ms \in MinSupps, nj \in JobCounts : __init__(ms, nj)
    /\ UNCHANGED <<pool, search>>

Fit ==
    /\ \E db \in Room : fit(db)
    /\ UNCHANGED <<pool, search>>

FitDiscover ==
    /\ \E db \in Room, tids \in BOOLEAN : fit_discover(db, tids)
    /\ UNCHANGED <<pool, search>>

FitTransform ==
    /\ \E db \in Room, sort \in BOOLEAN : fit_transform(db, sort)
    /\ UNCHANGED <<pool, search>>

Next == Construct \/ Fit \/ FitDiscover \/ FitTransform

Spec == Init /\ [][Next]_vars

(* ------------------------------------------- fit_discover, task by task *)
(* One run of fit_discover on a freshly constructed miner, with the worker
   pool made visible: Parallel hands the tasks to n_jobs workers in the
   order of supp_sorted_items, a worker runs its task to completion, and
   the results are gathered by task position. *)
PoolConstruct ==
    /\ \E ms \in PoolSupps, nj \in 1..MaxJobs : __init__(ms, nj)
    /\ UNCHANGED <<pool, search>>

(* fit_discover up to the creation of the tasks *)
Submit ==
    /\ status = "ready"
    /\ op = "__init__"
    /\ \E db \in Databases, tids \in BOOLEAN :
         /\ _fit(db)
         /\ out' = [kind |-> "pending", tids |-> tids]
    /\ op' = "fit_discover"
    /\ err' = "none"
    /\ tasks' = supp_sorted_items(item_to_tids')
    /\ next_task' = 1
    /\ running' = [w \in 1..n_jobs |-> 0]
    /\ results' = [j \in DOMAIN tasks' |-> [done |-> FALSE, df |-> <<>>]]
    /\ completed' = <<>>
    /\ UNCHANGED search

Pending == op = "fit_discover" /\ out.kind = "pending"

(* an idle worker takes the next task *)
Start(w) ==
    /\ Pending
    /\ running[w] = 0
    /\ next_task <= Len(tasks)
    /\ running' = [running EXCEPT ![w] = next_task]
    /\ next_task' = next_task + 1
    /\ UNCHANGED <<miner, call, tasks, results, completed, search>>

(* a worker returns the frame of its task *)
Return(w) ==
    /\ Pending
    /\ running[w] # 0
    /\ results' = [results EXCEPT ![running[w]] =
                     [done |-> TRUE,
                      df |-> _explore_item(item_to_tids, _min_supp, tasks[running[w]])]]
    /\ completed' = Append(completed, running[w])
    /\ running' = [running EXCEPT ![w] = 0]
    /\ UNCHANGED <<miner, call, tasks, next_task, search>>

(* variant: the frames are taken as the tasks complete *)
gather_as_completed(res, order) == Flatten([k \in DOMAIN order |-> res[order[k]].df])

(* the list Parallel returns, concatenated: one frame per task, by position *)
gather(res, order) == Flatten([j \in DOMAIN res |-> res[j].df])

Concat ==
    /\ Pending
    /\ \A j \in DOMAIN results : results[j].done
    /\ out' = frame(gather(results, completed), out.tids)
    /\ UNCHANGED <<miner, given, D, op, pool, search>>

Dispatch == \E w \in DOMAIN running : Start(w)
Complete == \E w \in DOMAIN running : Return(w)

PoolNext == PoolConstruct \/ Submit \/ Dispatch \/ Complete \/ Concat

SpecPool == Init /\ [][PoolNext]_vars

(* ------------------------------------------- _inner, call by call *)
(* The same run with n_jobs = 1 (the tasks run one after the other in the
   calling process) and the generator _inner made visible: a frame per
   active call, holding the candidates its loop has still to visit. *)
SearchConstruct ==
    /\ \E ms \in MinSupps : __init__(ms, 1)
    /\ UNCHANGED <<pool, search>>

(* a call _inner(p, tids, limit), up to its yield; rest is the caller's stack *)
enter(rest, p, tids, limit, rec, parent_limit, parent_pp) ==
    LET ok == closure_test(item_to_tids, p, tids, limit)
        pp == p_prime(item_to_tids, p, tids)
    IN  /\ last' = [n |-> last.n + 1, rec |-> rec, limit |-> limit,
                    parent_limit |-> parent_limit, parent_pp |-> parent_pp,
                    passed |-> ok]
        /\ IF ok
           THEN /\ yielded' = Append(yielded, [itemset |-> pp, tids |-> tids])
                /\ stack' = <<[pp |-> pp, tids |-> tids, limit |-> limit,
                               cands |-> candidates(item_to_tids, pp, limit)]>>
                            \o rest
           ELSE /\ yielded' = yielded
                /\ stack' = rest

(* _explore_item(item, tids): the root call of the next task *)
Explore ==
    /\ Pending
    /\ running[1] = 0
    /\ next_task <= Len(tasks)
    /\ running' = [running EXCEPT ![1] = next_task]
    /\ next_task' = next_task + 1
    /\ enter(<<>>, {}, item_to_tids[tasks[next_task]], tasks[next_task],
             FALSE, None, {})
    /\ UNCHANGED <<miner, call, tasks, results, completed>>

Looping == Pending /\ stack # <<>> /\ Head(stack).cands # <<>>

advanced == <<[Head(stack) EXCEPT !.cands = Tail(@)]>> \o Tail(stack)

(* a candidate whose intersection keeps the support: the recursive call *)
Descend ==
    /\ Looping
    /\ LET f == Head(stack)
           new_limit == Head(f.cands)
           ids == item_to_tids[new_limit]
       IN  /\ keeps_support(item_to_tids, _min_supp, f.tids, new_limit)
           /\ enter(advanced, f.pp, f.tids \cap ids, new_limit, TRUE, f.limit, f.pp)
    /\ UNCHANGED <<miner, call, pool>>

(* a candidate whose intersection is too small *)
Skip ==
    /\ Looping
    /\ ~keeps_support(item_to_tids, _min_supp, Head(stack).tids,
                      Head(Head(stack).cands))
    /\ stack' = advanced
    /\ UNCHANGED <<miner, call, pool, yielded, last>>

(* a call whose loop is over returns to its caller *)
Unwind ==
    /\ Pending
    /\ stack # <<>>
    /\ Head(stack).cands = <<>>
    /\ stack' = Tail(stack)
    /\ UNCHANGED <<miner, call, pool, yielded, last>>

(* the generator is exhausted: the task's frame is complete *)
Exhaust ==
    /\ Pending
    /\ running[1] # 0
    /\ stack = <<>>
    /\ results' = [results EXCEPT ![running[1]] = [done |-> TRUE, df |-> yielded]]
    /\ completed' = Append(completed, running[1])
    /\ running' = [running EXCEPT ![1] = 0]
    /\ yielded' = <<>>
    /\ UNCHANGED <<miner, call, tasks, next_task, stack, last>>

SearchNext ==
    SearchConstruct \/ Submit \/ Explore \/ Descend \/ Skip \/ Unwind \/ Exhaust \/ Concat

SpecSearch == Init /\ [][SearchNext]_vars

(* a started call runs on: the process is not suspended for ever *)
SpecSearchFair == SpecSearch /\ WF_vars(SearchNext)

(* ================================================================ claims *)
(* Definitions of the properties, independent of the miner. *)

(* the positions (from 0) of the transactions of db that contain A *)
Cover(db, A) == {t - 1 : t \in {u \in DOMAIN db : A \subseteq db[u]}}

Support(db, A) == Cardinality(Cover(db, A))

ItemsOf(db) == UNION Range(db)

(* A occurs in db and every item added to A loses a transaction *)
Closed(db, A) ==
    /\ A # {}
    /\ Cover(db, A) # {}
    /\ \A x \in ItemsOf(db) \ A : Cover(db, A \cup {x}) # Cover(db, A)

(* the threshold min_supp stands for on a database of n transactions *)
Resolved(ms, n) == IF ms.kind = "int" THEN [num |-> ms.num, den |-> 1]
                   ELSE [num |-> ms.num * n, den |-> ms.den]

Returned == op = "fit_discover" /\ out.kind = "frame"

Itemsets(rows) == {rows[j].itemset : j \in DOMAIN rows}

(* the transactions of the index that hold every item of A *)
IndexCover(A) == {t \in UNION Range(item_to_tids) :
                    \A i \in A : t \in item_to_tids[i]}

(* C1: on a freshly constructed miner, fit_discover(D) returns every
   non-empty itemset that is closed in D and whose support is at least the
   resolved threshold. *)
C1_Complete ==
    Returned =>
        \A A \in SUBSET ItemsOf(D) :
            (Closed(D, A) /\ AtLeast(Support(D, A), Resolved(min_supp, Len(D))))
                => A \in Itemsets(out.rows)

(* the same, for the closed itemsets that do not hold item 0 as their largest
   or only generator: databases without item 0 *)
C1_CompleteWithoutZero == (0 \notin ItemsOf(D)) => C1_Complete

(* C2: every record (A, tA) returned with return_tids=True is closed: A is
   the set of all indexed items whose TidSet includes tA, tA is the set of
   transactions holding A, and adding any other indexed item to A gives a
   strict subset of tA. *)
C2_Closed ==
    (Returned /\ out.tids) =>
        \A j \in DOMAIN out.rows :
            LET A == out.rows[j].itemset
                tA == out.rows[j].tids
            IN  /\ A = {i \in DOMAIN item_to_tids : tA \subseteq item_to_tids[i]}
                /\ tA = IndexCover(A)
                /\ \A x \in (DOMAIN item_to_tids) \ A :
                     /\ IndexCover(A \cup {x}) \subseteq tA
                     /\ IndexCover(A \cup {x}) # tA

C2_Witness ==
    /\ Returned /\ out.tids
    /\ \E j \in DOMAIN out.rows :
         /\ Cardinality(out.rows[j].itemset) >= 2
         /\ (DOMAIN item_to_tids) \ out.rows[j].itemset # {}

(* C3: in one run of fit_discover, whatever the number of workers and the
   order in which the tasks run, no two returned records have the same
   itemset. *)
C3_NoDuplicates ==
    /\ Returned =>
         \A j, k \in DOMAIN out.rows :
             j # k => out.rows[j].itemset # out.rows[k].itemset
    /\ \A a, b \in DOMAIN results :
         a # b => Itemsets(results[a].df) \cap Itemsets(results[b].df) = {}

C3_Witness ==
    /\ Returned
    /\ n_jobs >= 2
    /\ Len(out.rows) >= 3
    /\ Cardinality({j \in DOMAIN results : results[j].df # <<>>}) >= 2
    /\ \E a, b \in DOMAIN completed : a < b /\ completed[a] > completed[b]

(* C4: after fit(D) the state depends only on D and the construction
   parameters: TransactionIds 0..|D|-1, transaction count |D|, a relative
   min_supp resolved against |D|; fit_discover(D) returns what it returns
   on a freshly constructed miner. *)
FreshIndex == fit_prune(fit_index(D, 0), Resolved(min_supp, Len(D)))

C4_RefitDiscards ==
    (op \in {"fit", "fit_discover", "fit_transform"}) =>
        /\ n_transactions = Len(D)
        /\ \A i \in DOMAIN item_to_tids : item_to_tids[i] \subseteq 0..(Len(D) - 1)
        /\ _min_supp = Resolved(min_supp, Len(D))
        /\ item_to_tids = FreshIndex
        /\ Returned =>
             out = frame(discover(FreshIndex, Resolved(min_supp, Len(D))), out.tids)

(* C5: fit_transform(D) returns a matrix with one row per transaction of D,
   one column per itemset discover returns, and cell (t, j) = 1 exactly
   when the t-th transaction of D holds every item of column j. *)
C5_Encoded ==
    (out.kind = "matrix") =>
        /\ out.rows = Len(D)
        /\ Len(out.columns) = Len(discover(item_to_tids, _min_supp))
        /\ Range(out.columns) = Itemsets(discover(item_to_tids, _min_supp))
        /\ out.ones = {c \in (0..(Len(D) - 1)) \X (0..(Len(out.columns) - 1)) :
                         out.columns[c[2] + 1] \subseteq D[c[1] + 1]}

(* the same on a miner whose transaction count started at 0 *)
C5_EncodedFirstFit == (n_transactions = Len(D)) => C5_Encoded

(* C6: the tasks are submitted by non-increasing support of the root item,
   equal supports in ascending item order, and the returned list is the
   concatenation of the per-root outputs in that order, whatever the number
   of workers and the order in which they complete. *)
C6_SubmissionOrder ==
    /\ (Pending \/ Returned) =>
         /\ Range(tasks) = DOMAIN item_to_tids
         /\ \A a, b \in DOMAIN tasks :
              a < b =>
                LET sa == Cardinality(item_to_tids[tasks[a]])
                    sb == Cardinality(item_to_tids[tasks[b]])
                IN  sa > sb \/ (sa = sb /\ tasks[a] < tasks[b])
    /\ Returned =>
         out = frame(Flatten([j \in DOMAIN tasks |->
                                _explore_item(item_to_tids, _min_supp, tasks[j])]),
                     out.tids)

C6_Witness ==
    /\ Returned
    /\ Cardinality({j \in DOMAIN results : results[j].df # <<>>}) >= 2
    /\ \E a, b \in DOMAIN completed :
         /\ a < b /\ completed[a] > completed[b]
         /\ results[completed[a]].df # <<>>
         /\ results[completed[b]].df # <<>>
    /\ \E a, b \in DOMAIN tasks :
         Cardinality(item_to_tids[tasks[a]]) # Cardinality(item_to_tids[tasks[b]])

(* C7: a miner with n_jobs < 1 cannot be constructed. *)
C7_JobsValidated ==
    /\ (status = "ready") => n_jobs >= 1
    /\ (op = "__init__" /\ given.n_jobs < 1) => status = "raised"

(* C8: an int min_supp < 1, a float outside [0, 1] and a value of another
   type are refused at construction, before any transaction is read; every
   int >= 1 and every float in [0, 1], bounds included, is accepted; a
   miner that is fitted holds a valid min_supp. *)
ValidSupp(ms) ==
    \/ ms.kind = "int" /\ ms.num >= 1
    \/ ms.kind = "float" /\ 0 <= ms.num /\ ms.num <= ms.den

RowSupport(r) == IF out.tids THEN Cardinality(r.tids) ELSE r.support

C9_Threshold ==
    /\ (op \in {"fit", "fit_discover", "fit_transform"}) =>
         \A i \in DOMAIN item_to_tids :
             AtLeast(Cardinality(item_to_tids[i]), Resolved(min_supp, Len(D)))
    /\ Returned =>
         \A j \in DOMAIN out.rows :
             /\ AtLeast(RowSupport(out.rows[j]), Resolved(min_supp, Len(D)))
             /\ AtLeast(RowSupport(out.rows[j]), _min_supp)

(* a record was returned with its support at the threshold, and its
   extension by a smaller indexed item falls under the threshold *)
C9_Witness ==
    /\ Returned /\ out.tids
    /\ \E j \in DOMAIN out.rows :
         \E c \in (DOMAIN item_to_tids) \ out.rows[j].itemset :
             /\ c < Min(out.rows[j].itemset)
             /\ Below(Cardinality(out.rows[j].tids \cap item_to_tids[c]), _min_supp)

(* C10: a recursive call is made with a limit strictly below its caller's
   and outside the caller's closure; a call whose closure test fails yields
   nothing and pushes no frame; every run that was started completes. *)
C10_Descent ==
    last.rec => (last.limit < last.parent_limit /\ last.limit \notin last.parent_pp)

C10_FailedCall ==
    (last'.n # last.n /\ ~last'.passed) =>
        (yielded' = yielded /\ Len(stack') <= Len(stack))

C10_Terminates ==
    /\ []C10_Descent
    /\ [][C10_FailedCall]_vars
    /\ (Pending ~> Returned)

C10_Witness ==
    /\ Pending
    /\ last.rec /\ ~last.passed /\ last.limit # 0
    /\ Len(yielded) >= 1
    /\ Len(stack) >= 1

====
